---- MODULE Spec2Model ----
(***************************************************************************)
(* metaimport: the import-path resolution engine.                          *)
(*                                                                         *)
(* The model follows the variant of the program that carries the           *)
(* NbComponents gate (src/unnamed/part_000, lines 1-158): main() builds    *)
(* the rule table from the decoded configuration, then serves; handler()   *)
(* resolves one request against the table.                                 *)
(*                                                                         *)
(* Strings are sequences of one-character strings, so that Split,          *)
(* HasPrefix, Join and len() are computed and not assumed.  The alphabet   *)
(* of the inputs is {a, b, c, r, /}: none of these characters is changed   *)
(* by the escapers of html/template, and none is "." so path.Clean leaves  *)
(* the joined segments alone.                                              *)
(***************************************************************************)
EXTENDS Integers, Sequences, FiniteSets, TLC

VARIABLES confFile, conf, templates, mainPc, mainI, wk

vars == <<confFile, conf, templates, mainPc, mainI, wk>>

\* Largest number of rules in the "paths" list of a configuration file.
MaxRules == 2

\* The goroutines net/http runs the handler on, one per connection.
Workers == {"w1", "w2"}

(***************************************************************************)
(* Library functions, as the code uses them                                *)
(***************************************************************************)

\* strings.Split(s, sep) for a one-character separator.
RECURSIVE Split(_, _)
Split(s, sep) ==
    IF \A i \in 1..Len(s) : s[i] # sep
    THEN <<s>>
    ELSE LET k == CHOOSE i \in 1..Len(s) :
                      s[i] = sep /\ \A j \in 1..(i - 1) : s[j] # sep
         IN  <<SubSeq(s, 1, k - 1)>> \o Split(SubSeq(s, k + 1, Len(s)), sep)

\* The swapped-argument call strings.HasPrefix(prefix, s).
HasPrefixSwapped(s, prefix) ==
    Len(s) <= Len(prefix) /\ SubSeq(prefix, 1, Len(s)) = s

\* strings.HasPrefix(s, prefix).
HasPrefix(s, prefix) ==
    Len(prefix) <= Len(s) /\ SubSeq(s, 1, Len(prefix)) = prefix

\* strings.Join(elems, sep).
RECURSIVE Join(_, _)
Join(elems, sep) ==
    IF Len(elems) = 0 THEN <<>>
    ELSE IF Len(elems) = 1 THEN elems[1]
    ELSE elems[1] \o sep \o Join(Tail(elems), sep)

\* The "join" template function: path.Join(elems...) drops the empty
\* elements, joins the others with "/" and cleans the result.
pathJoin(elems) ==
    Join(SelectSeq(elems, LAMBDA e : e # <<>>), <<"/">>)

\* strconv.Itoa for a non-negative integer.
Digits == <<"0", "1", "2", "3", "4", "5", "6", "7", "8", "9">>

RECURSIVE Itoa(_)
Itoa(n) ==
    IF n < 10 THEN <<Digits[n + 1]>>
    ELSE Itoa(n \div 10) \o <<Digits[(n % 10) + 1]>>

templateNameForImportPath(i) == <<"p", "a", "t", "h", "-">> \o Itoa(i)

(***************************************************************************)
(* Templates                                                                *)
(*                                                                         *)
(* A template text is a sequence of nodes.  kind "text" is literal text,   *)
(* "index" is {{index . n}}, "join" is {{join (slice . n)}}, "field" is    *)
(* {{ .Name }} and "bad" is an action the parser rejects.                  *)
(***************************************************************************)
Text(s)  == [kind |-> "text",  text |-> s,    n |-> 0]
Index(k) == [kind |-> "index", text |-> <<>>, n |-> k]
JoinFrom(k) == [kind |-> "join", text |-> <<>>, n |-> k]
Field(f) == [kind |-> "field", text |-> f,    n |-> 0]
BadAction == [kind |-> "bad",  text |-> <<>>, n |-> 0]

\* The HTML page, parsed by template.Must at package initialisation.
mainTemplate ==
    << Text(<<"<html><head><meta name=\"go-import\" content=\"">>),
       Field("Prefix"), Text(<<" ">>), Field("VCS"), Text(<<" ">>),
       Field("Repo"), Text(<<"\"></head><body></body></html>">>) >>

MainName == <<"m", "a", "i", "n">>

\* Template.Parse: an error when the text holds a malformed action.
Parse(text) ==
    IF \E i \in 1..Len(text) : text[i].kind = "bad"
    THEN [err |-> TRUE,  tree |-> <<>>]
    ELSE [err |-> FALSE, tree |-> text]

\* The evaluation of one node against the data of the execution.
ExecNode(node, data) ==
    CASE node.kind = "text"  -> [err |-> FALSE, out |-> node.text]
      [] node.kind = "index" ->
            IF node.n < Len(data)
            THEN [err |-> FALSE, out |-> data[node.n + 1]]
            ELSE [err |-> TRUE,  out |-> <<>>]
      [] node.kind = "join"  ->
            IF node.n <= Len(data)
            THEN [err |-> FALSE,
                  out |-> pathJoin(SubSeq(data, node.n + 1, Len(data)))]
            ELSE [err |-> TRUE,  out |-> <<>>]
      [] node.kind = "field" -> [err |-> FALSE, out |-> data[node.text]]
      [] OTHER               -> [err |-> TRUE,  out |-> <<>>]

RECURSIVE ExecFrom(_, _, _, _)
ExecFrom(tree, i, data, out) ==
    IF i > Len(tree) THEN [err |-> FALSE, out |-> out]
    ELSE LET r == ExecNode(tree[i], data)
         IN  IF r.err THEN [err |-> TRUE, out |-> out]
             ELSE ExecFrom(tree, i + 1, data, out \o r.out)

\* Template.ExecuteTemplate(wr, name, data): an error when no template of
\* that name is defined or when an action fails.
ExecuteTemplate(tm, name, data) ==
    IF name \notin DOMAIN tm THEN [err |-> TRUE, out |-> <<>>]
    ELSE ExecFrom(tm[name], 1, data, <<>>)

(***************************************************************************)
(* Configuration                                                            *)
(***************************************************************************)
Rule(prefix, nb, vcs, tmpl) ==
    [Prefix |-> prefix, NbComponents |-> nb, VCS |-> vcs, RepoTemplate |-> tmpl]

git == <<"g", "i", "t">>
hg  == <<"h", "g">>

\* The rules a configuration file draws its "paths" entries from.  A field
\* the file leaves out decodes to its zero value: an empty Prefix, an empty
\* RepoTemplate (which parses, and renders nothing), a zero NbComponents.
RuleConfigs ==
    { Rule(<<"a">>, 0, git, <<Text(<<"r">>)>>),
      Rule(<<"a", "/", "b">>, 0, hg, <<Index(2)>>),
      Rule(<<"a", "/", "b">>, 3, git, <<Text(<<"r">>), Index(2)>>),
      Rule(<<"a", "/", "b">>, 1, hg, <<JoinFrom(1)>>),
      Rule(<<>>, -1, git, <<Text(<<"r">>)>>),
      Rule(<<"c">>, 2, hg, <<>>),
      Rule(<<"c">>, 0, git, <<BadAction>>) }

RECURSIVE SeqsUpTo(_, _)
SeqsUpTo(S, n) ==
    IF n = 0 THEN {<<>>}
    ELSE LET shorter == SeqsUpTo(S, n - 1)
         IN  shorter \cup {Append(s, x) : s \in shorter, x \in S}

\* What parseConfig can return: the decoded "paths" of the file.
ConfigFiles == {[Paths |-> ps] : ps \in SeqsUpTo(RuleConfigs, MaxRules)}

\* The requests of the environment: r.Host, r.URL.Path (which starts with
\* "/") and the values of the "go-get" key of the query.
Hosts    == {<<"a">>, <<"c">>}
UrlPaths == {<<"/">>, <<"/", "b">>, <<"/", "b", "/", "c">>}
Queries  == {<<>>, <<"1">>, <<"0">>}

\* url.Values.Get: the first value of the key, "" when the key is absent.
Get(q) == IF Len(q) = 0 THEN "" ELSE q[1]

(***************************************************************************)
(* The handler, split where it reads the state it shares with main()       *)
(***************************************************************************)

\* The locals of one run of handler(); p is the pointer into conf.Paths
\* (0 is nil, k is &conf.Paths[k-1]), pi the index of the matched rule.
NoMetaImport == [Prefix |-> <<>>, VCS |-> <<>>, Repo |-> <<>>]

Idle ==
    [pc |-> "idle", host |-> <<>>, urlPath |-> <<>>, query |-> <<>>,
     pkgName |-> <<>>, components |-> <<>>, p |-> 0, pi |-> 0, pl |-> 0,
     tmplName |-> <<>>, repo |-> <<>>, mi |-> NoMetaImport,
     status |-> "", body |-> <<>>]

\* w.WriteHeader(http.StatusBadRequest): a header and no body.
BadRequestResponse(st) ==
    [st EXCEPT !.pc = "done", !.status = "BadRequest", !.body = <<>>]

\* http.NotFound(w, r).
NotFound(st) ==
    [st EXCEPT !.pc = "done", !.status = "NotFound",
               !.body = <<"404 page not found\n">>]

\* w.WriteHeader(http.StatusInternalServerError).
InternalServerErrorResponse(st) ==
    [st EXCEPT !.pc = "done", !.status = "InternalServerError", !.body = <<>>]

\* The 200 response with the rendered page.
OKResponse(st, html) ==
    [st EXCEPT !.pc = "done", !.status = "OK", !.body = html]

\* A run-time panic in the handler: net/http recovers it, logs it and
\* closes the connection without a response.
Panicked(st) ==
    [st EXCEPT !.pc = "done", !.status = "panic", !.body = <<>>]

\* A check that lets any present go-get value through.
IsGoGetAnyValue(q) == Get(q) # ""

\* r.URL.Query().Get("go-get") != "1", negated.
IsGoGet(q) == Get(q) = "1"

\* The condition of the earlier variants: the prefix alone.
CandidateNoGate(path, pkgName, n) == HasPrefix(pkgName, path.Prefix)

\* The first two conjuncts of the condition of the matching loop.
Candidate(path, pkgName, n) ==
    path.NbComponents <= n /\ HasPrefix(pkgName, path.Prefix)

\* A strict comparison against the best length so far.
LongerStrict(l, pl) == l > pl

\* The third conjunct: len(path.Prefix) >= pl.
Longer(l, pl) == l >= pl

\* The matching loop from Go index i on; st holds p, pi and pl.
RECURSIVE MatchLoop(_, _, _, _, _)
MatchLoop(Paths, pkgName, n, i, st) ==
    IF i >= Len(Paths) THEN st
    ELSE LET path == Paths[i + 1]
         IN  IF Candidate(path, pkgName, n) /\ Longer(Len(path.Prefix), st.pl)
             THEN MatchLoop(Paths, pkgName, n, i + 1,
                            [p |-> i + 1, pi |-> i, pl |-> Len(path.Prefix)])
             ELSE MatchLoop(Paths, pkgName, n, i + 1, st)

\* The loop of the earlier variants: the first rule that matches, then break.
MatchFirst(Paths, pkgName, n) ==
    IF \E i \in 1..Len(Paths) : Candidate(Paths[i], pkgName, n)
    THEN LET k == CHOOSE i \in 1..Len(Paths) :
                      /\ Candidate(Paths[i], pkgName, n)
                      /\ \A j \in 1..(i - 1) : ~Candidate(Paths[j], pkgName, n)
         IN  [p |-> k, pi |-> k - 1, pl |-> Len(Paths[k].Prefix)]
    ELSE [p |-> 0, pi |-> 0, pl |-> 0]

\* var p *importPath; pi, pl := 0, 0; for i, path := range conf.Paths {...}
Match(Paths, pkgName, n) ==
    MatchLoop(Paths, pkgName, n, 0, [p |-> 0, pi |-> 0, pl |-> 0])

\* The whole page path as the import prefix, as the earlier variants did.
ImportPrefixWholePath(components, nb) == Join(components, <<"/">>)

\* strings.Join(components[:p.NbComponents], "/").
ImportPrefix(components, nb) == Join(SubSeq(components, 1, nb), <<"/">>)

\* A failed rendering answered with a 500.
RenderErrorAsServerFault(st) == InternalServerErrorResponse(st)

\* The answer to a failed ExecuteTemplate of the rule's template.
RenderErrorResponse(st) == NotFound(st)

\* handler(), from its entry to the end of the matching.
handlerBegin(cf, host, urlPath, query) ==
    LET req == [Idle EXCEPT !.host = host, !.urlPath = urlPath,
                            !.query = query]
    IN  IF ~IsGoGet(query) THEN BadRequestResponse(req)
        ELSE LET pkgName    == host \o urlPath
                 components == Split(pkgName, "/")
                 m          == Match(cf.Paths, pkgName, Len(components))
                 st         == [req EXCEPT !.pkgName = pkgName,
                                           !.components = components,
                                           !.p = m.p, !.pi = m.pi, !.pl = m.pl]
             IN  IF m.p = 0 THEN NotFound(st)
                 ELSE [st EXCEPT !.pc = "render"]

\* handler(), the rendering of the rule's template.
handlerRender(tm, st) ==
    LET tmplName == templateNameForImportPath(st.pi)
        r        == ExecuteTemplate(tm, tmplName, st.components)
        st1      == [st EXCEPT !.tmplName = tmplName]
    IN  IF r.err THEN RenderErrorResponse(st1)
        ELSE [st1 EXCEPT !.repo = r.out, !.pc = "respond"]

\* handler(), the metaImport value and the page.
handlerRespond(cf, tm, st) ==
    LET nb == cf.Paths[st.p].NbComponents
    IN  IF nb < 0 \/ nb > Len(st.components) THEN Panicked(st)
        ELSE LET mi == [Prefix |-> ImportPrefix(st.components, nb),
                        VCS    |-> cf.Paths[st.p].VCS,
                        Repo   |-> st.repo]
                 h  == ExecuteTemplate(tm, MainName, mi)
                 st1 == [st EXCEPT !.mi = mi]
             IN  IF h.err THEN InternalServerErrorResponse(st1)
                 ELSE OKResponse(st1, h.out)

(***************************************************************************)
(* main()                                                                   *)
(***************************************************************************)

\* A default that is applied to negative values only.
DefaultNbComponentsNegativeOnly(path) ==
    IF path.NbComponents < 0
    THEN [path EXCEPT !.NbComponents = Len(Split(path.Prefix, "/"))]
    ELSE path

\* if p.NbComponents <= 0 { p.NbComponents = len(strings.Split(p.Prefix, "/")) }
DefaultNbComponents(path) ==
    IF path.NbComponents <= 0
    THEN [path EXCEPT !.NbComponents = Len(Split(path.Prefix, "/"))]
    ELSE path

\* A listener started before the loop over conf.Paths has ended.
ListeningEarly(pc) == pc \in {"loop", "serve"}

\* The handler is registered and the listener started after the loop.
Listening(pc) == pc = "serve"

Init ==
    /\ confFile \in ConfigFiles
    /\ conf = confFile
    /\ templates = (MainName :> mainTemplate)
    /\ mainPc = "loop"
    /\ mainI = 0
    /\ wk = [w \in Workers |-> Idle]

\* One iteration of the loop of main() whose template parses.
MainLoopStep ==
    /\ mainPc = "loop"
    /\ mainI < Len(conf.Paths)
    /\ LET path == DefaultNbComponents(conf.Paths[mainI + 1])
           name == templateNameForImportPath(mainI)
           r    == Parse(path.RepoTemplate)
       IN  /\ ~r.err
           /\ conf' = [conf EXCEPT !.Paths[mainI + 1] = path]
           /\ templates' = (name :> r.tree) @@ templates
    /\ mainI' = mainI + 1
    /\ UNCHANGED <<confFile, mainPc, wk>>

\* One iteration whose template does not parse: template.Must panics.
MainLoopPanic ==
    /\ mainPc = "loop"
    /\ mainI < Len(conf.Paths)
    /\ LET path == DefaultNbComponents(conf.Paths[mainI + 1])
           r    == Parse(path.RepoTemplate)
       IN  /\ r.err
           /\ conf' = [conf EXCEPT !.Paths[mainI + 1] = path]
    /\ mainPc' = "fatal"
    /\ UNCHANGED <<confFile, templates, mainI, wk>>

\* http.HandleFunc and ListenAndServe: the process serves.
MainListen ==
    /\ mainPc = "loop"
    /\ mainI = Len(conf.Paths)
    /\ mainPc' = "serve"
    /\ UNCHANGED <<confFile, conf, templates, mainI, wk>>

\* ListenAndServe returns an error: log.Fatal.
MainListenFail ==
    /\ mainPc = "loop"
    /\ mainI = Len(conf.Paths)
    /\ mainPc' = "fatal"
    /\ UNCHANGED <<confFile, conf, templates, mainI, wk>>

\* A request arrives on a free connection; the handler runs to the end of
\* the matching.
HandlerBegin(w) ==
    /\ Listening(mainPc)
    /\ wk[w].pc = "idle"
    /\ \E host \in Hosts, urlPath \in UrlPaths, query \in Queries :
           wk' = [wk EXCEPT ![w] = handlerBegin(conf, host, urlPath, query)]
    /\ UNCHANGED <<confFile, conf, templates, mainPc, mainI>>

HandlerRender(w) ==
    /\ Listening(mainPc)
    /\ wk[w].pc = "render"
    /\ wk' = [wk EXCEPT ![w] = handlerRender(templates, wk[w])]
    /\ UNCHANGED <<confFile, conf, templates, mainPc, mainI>>

HandlerRespond(w) ==
    /\ Listening(mainPc)
    /\ wk[w].pc = "respond"
    /\ wk' = [wk EXCEPT ![w] = handlerRespond(conf, templates, wk[w])]
    /\ UNCHANGED <<confFile, conf, templates, mainPc, mainI>>

\* The handler has returned; the connection takes the next request.
HandlerReturn(w) ==
    /\ Listening(mainPc)
    /\ wk[w].pc = "done"
    /\ wk' = [wk EXCEPT ![w] = Idle]
    /\ UNCHANGED <<confFile, conf, templates, mainPc, mainI>>

Next ==
    \/ MainLoopStep
    \/ MainLoopPanic
    \/ MainListen
    \/ MainListenFail
    \/ \E w \in Workers : HandlerBegin(w)
    \/ \E w \in Workers : HandlerRender(w)
    \/ \E w \in Workers : HandlerRespond(w)
    \/ \E w \in Workers : HandlerReturn(w)

Spec == Init /\ [][Next]_vars

(***************************************************************************)
(* Properties                                                               *)
(*                                                                         *)
(* The vocabulary of the properties is defined here on its own, from the   *)
(* request a connection carries and the table in memory.                   *)
(***************************************************************************)

\* host + url path of the request on connection w.
EffectivePath(w) == wk[w].host \o wk[w].urlPath

\* The "/"-separated segments of a path.
Segments(path) == Split(path, "/")

\* t is a leading substring of s.
StartsWith(s, t) ==
    Len(t) <= Len(s) /\ \A i \in 1..Len(t) : s[i] = t[i]

\* Rule j of the table is a candidate for the path.
IsCandidate(j, path) ==
    /\ conf.Paths[j].NbComponents <= Len(Segments(path))
    /\ StartsWith(path, conf.Paths[j].Prefix)

RuleIndexes == 1..Len(conf.Paths)

\* Connection w carries a request that passed the go-get check.
PassedGoGet(w) == wk[w].pc # "idle" /\ wk[w].query = <<"1">>

\* The import prefix the rule j gives for a path.
PrefixOf(j, path) ==
    Join(SubSeq(Segments(path), 1, conf.Paths[j].NbComponents), <<"/">>)

\* C1: the rule a request selects is a candidate, no candidate has a
\* strictly longer prefix, and a rule is selected whenever a candidate
\* exists, whatever the order of the rules in the table.
C1_LongestPrefix ==
    \A w \in Workers :
        PassedGoGet(w) =>
            LET path == EffectivePath(w)
                p    == wk[w].p
            IN  /\ (\E j \in RuleIndexes : IsCandidate(j, path)) => p # 0
                /\ p # 0 =>
                      /\ p \in RuleIndexes
                      /\ IsCandidate(p, path)
                      /\ \A j \in RuleIndexes :
                            IsCandidate(j, path) =>
                                Len(conf.Paths[j].Prefix)
                                    <= Len(conf.Paths[p].Prefix)

\* The table is "a/b" then "a", and "a/b/c" selected the "a/b" rule.
C1_Witness ==
    \E w \in Workers :
        /\ PassedGoGet(w)
        /\ EffectivePath(w) = <<"a", "/", "b", "/", "c">>
        /\ Len(conf.Paths) = 2
        /\ conf.Paths[1].Prefix = <<"a", "/", "b">>
        /\ conf.Paths[2].Prefix = <<"a">>
        /\ wk[w].p = 1

\* C2: a rule whose NbComponents exceeds the number of segments of the
\* path is not selected and its template is not the one evaluated.
C2_ComponentGate ==
    \A w \in Workers : \A j \in RuleIndexes :
        (/\ wk[w].pc # "idle"
         /\ conf.Paths[j].NbComponents > Len(Segments(EffectivePath(w))))
        => /\ wk[w].p # j
           /\ wk[w].tmplName # templateNameForImportPath(j - 1)

\* A rule "a/b" with 3 components: "a/b" did not select it, "a/b/c" did.
C2_Witness ==
    \E w, v \in Workers : \E j \in RuleIndexes :
        /\ conf.Paths[j].Prefix = <<"a", "/", "b">>
        /\ conf.Paths[j].NbComponents = 3
        /\ PassedGoGet(w) /\ wk[w].pc = "done"
        /\ EffectivePath(w) = <<"a", "/", "b">>
        /\ wk[w].p # j
        /\ PassedGoGet(v) /\ wk[v].status = "OK"
        /\ EffectivePath(v) = <<"a", "/", "b", "/", "c">>
        /\ wk[v].p = j

\* C3: a request whose go-get value is not "1" is answered BadRequest with
\* no body, and nothing of the table was looked at for it.
C3_GoGetRequired ==
    \A w \in Workers :
        (wk[w].pc # "idle" /\ Get(wk[w].query) # "1")
        => /\ wk[w].pc = "done"
           /\ wk[w].status = "BadRequest"
           /\ wk[w].body = <<>>
           /\ wk[w].p = 0
           /\ wk[w].components = <<>>

\* BadRequest for go-get=0 on a path a rule is a candidate for, and for a
\* request without go-get on a path no rule is a candidate for.
C3_Witness ==
    \E w, v \in Workers :
        /\ wk[w].status = "BadRequest" /\ wk[w].query = <<"0">>
        /\ \E j \in RuleIndexes : IsCandidate(j, EffectivePath(w))
        /\ wk[v].status = "BadRequest" /\ wk[v].query = <<>>
        /\ \A j \in RuleIndexes : ~IsCandidate(j, EffectivePath(v))

\* C4: a request that passed the go-get check and has no candidate rule is
\* answered NotFound.
C4_NoMatchNotFound ==
    \A w \in Workers :
        (/\ PassedGoGet(w)
         /\ \A j \in RuleIndexes : ~IsCandidate(j, EffectivePath(w)))
        => wk[w].pc = "done" /\ wk[w].status = "NotFound"

\* NotFound with a table whose rules all miss the path: one by its prefix,
\* one by its component count.
C4_Witness ==
    \E w \in Workers :
        /\ PassedGoGet(w)
        /\ wk[w].status = "NotFound"
        /\ Len(conf.Paths) = 2
        /\ \A j \in RuleIndexes : ~IsCandidate(j, EffectivePath(w))
        /\ \E j \in RuleIndexes : ~StartsWith(EffectivePath(w), conf.Paths[j].Prefix)
        /\ \E j \in RuleIndexes : StartsWith(EffectivePath(w), conf.Paths[j].Prefix)

\* C5: in an OK answer the import prefix is the first NbComponents segments
\* of host + url path joined with "/", and the vcs is the selected rule's.
C5_ImportPrefix ==
    \A w \in Workers :
        wk[w].status = "OK" =>
            /\ wk[w].p \in RuleIndexes
            /\ wk[w].mi.Prefix = PrefixOf(wk[w].p, EffectivePath(w))
            /\ wk[w].mi.VCS = conf.Paths[wk[w].p].VCS

\* Two components of a three-segment path: "a/b" out of "a/b/c".
C5_Witness ==
    \E w \in Workers :
        /\ wk[w].status = "OK"
        /\ EffectivePath(w) = <<"a", "/", "b", "/", "c">>
        /\ conf.Paths[wk[w].p].NbComponents = 2
        /\ wk[w].mi.Prefix = <<"a", "/", "b">>
        /\ wk[w].mi.VCS = hg

\* The template of the rule connection w selected fails on its segments.
RenderFails(w) ==
    /\ wk[w].p # 0
    /\ ExecuteTemplate(templates, templateNameForImportPath(wk[w].p - 1),
                       Segments(EffectivePath(w))).err

\* C6: the step that renders a failing template answers NotFound and
\* changes nothing but that request: the process keeps serving, the table,
\* the templates and the other connections are as they were.
C6_RenderFailureConfined ==
    [][\A w \in Workers :
          (wk[w].pc = "render" /\ wk'[w].pc # "render" /\ RenderFails(w))
          => /\ wk'[w].status = "NotFound"
             /\ mainPc = "serve" /\ mainPc' = "serve"
             /\ conf' = conf
             /\ templates' = templates
             /\ \A v \in Workers \ {w} : wk'[v] = wk[v]]_vars

\* "a/b" failed to render {{index . 2}} and got NotFound, and the other
\* connection got its page for "a/b/c" from the same rule.
C6_Witness ==
    \E w, v \in Workers :
        /\ wk[w].pc = "done" /\ RenderFails(w)
        /\ wk[w].status = "NotFound"
        /\ wk[w].tmplName # <<>>
        /\ wk[v].status = "OK"
        /\ wk[v].p = wk[w].p

\* C7: while the process serves, no rule has an empty prefix or an empty
\* repo template.
C7_NoEmptyRule ==
    mainPc = "serve" =>
        \A j \in RuleIndexes :
            /\ conf.Paths[j].Prefix # <<>>
            /\ conf.Paths[j].RepoTemplate # <<>>

\* Two connections that carry the same request hold the same answer.
SameRequestSameAnswer ==
    \A w, v \in Workers :
        (/\ wk[w].pc = "done" /\ wk[v].pc = "done"
         /\ wk[w].host = wk[v].host
         /\ wk[w].urlPath = wk[v].urlPath
         /\ wk[w].query = wk[v].query)
        => wk[w] = wk[v]

\* C8: the answers to two requests with the same host, path and query are
\* identical, and no step taken while a request is being handled, or by
\* the handling of a request, changes the table or the templates.
C8_PureResolve ==
    /\ []SameRequestSameAnswer
    /\ [][((\E w \in Workers : wk[w].pc # "idle") \/ wk' # wk)
            => (conf' = conf /\ templates' = templates)]_vars

\* Both connections answered the same request with the same page.
C8_Witness ==
    /\ wk["w1"].status = "OK"
    /\ wk["w2"] = wk["w1"]
    /\ Len(conf.Paths) = 2

\* C9: among the candidates with the longest prefix the last one of the
\* table is selected, and the template rendered and the NbComponents used
\* are those of that rule.
C9_TieBreak ==
    \A w \in Workers :
        wk[w].p # 0 =>
            LET path == EffectivePath(w)
                p    == wk[w].p
            IN  /\ wk[w].pi = p - 1
                /\ \A j \in RuleIndexes :
                      (/\ IsCandidate(j, path)
                       /\ Len(conf.Paths[j].Prefix) = Len(conf.Paths[p].Prefix))
                      => j <= p
                /\ wk[w].tmplName \in {<<>>, templateNameForImportPath(p - 1)}
                /\ wk[w].status = "OK" =>
                      /\ wk[w].mi.Prefix = PrefixOf(p, path)
                      /\ wk[w].mi.Repo =
                            ExecFrom(conf.Paths[p].RepoTemplate, 1,
                                     Segments(path), <<>>).out

\* Two rules with the prefix "a/b" that differ in template and component
\* count: the second one answered.
C9_Witness ==
    \E w \in Workers :
        /\ Len(conf.Paths) = 2
        /\ conf.Paths[1].Prefix = conf.Paths[2].Prefix
        /\ conf.Paths[1].RepoTemplate # conf.Paths[2].RepoTemplate
        /\ conf.Paths[1].NbComponents # conf.Paths[2].NbComponents
        /\ IsCandidate(1, EffectivePath(w))
        /\ IsCandidate(2, EffectivePath(w))
        /\ wk[w].status = "OK"
        /\ wk[w].p = 2
        /\ wk[w].mi.Prefix = PrefixOf(2, EffectivePath(w))
        /\ wk[w].mi.Prefix # PrefixOf(1, EffectivePath(w))

\* C10: once the table is built every NbComponents is at least 1 (the
\* configured value when positive, else the segment count of the prefix),
\* a selected rule has 1 <= NbComponents <= segment count of the path, and
\* no request is aborted by the slice of the segments.
C10_NbComponentsRange ==
    /\ mainPc = "serve" =>
          \A j \in RuleIndexes :
              /\ conf.Paths[j].NbComponents >= 1
              /\ conf.Paths[j].NbComponents =
                    IF confFile.Paths[j].NbComponents > 0
                    THEN confFile.Paths[j].NbComponents
                    ELSE Len(Segments(confFile.Paths[j].Prefix))
    /\ \A w \in Workers :
          /\ wk[w].status # "panic"
          /\ wk[w].p # 0 =>
                /\ 1 <= conf.Paths[wk[w].p].NbComponents
                /\ conf.Paths[wk[w].p].NbComponents
                       <= Len(Segments(EffectivePath(w)))

\* A rule configured with 0 and one configured with a negative value, both
\* defaulted, each selected by a request that got its page.
C10_Witness ==
    \E w, v \in Workers :
        /\ mainPc = "serve"
        /\ wk[w].status = "OK" /\ wk[v].status = "OK"
        /\ confFile.Paths[wk[w].p].NbComponents = 0
        /\ conf.Paths[wk[w].p].NbComponents = 2
        /\ confFile.Paths[wk[v].p].NbComponents < 0
        /\ conf.Paths[wk[v].p].NbComponents = 1

====
